---- MODULE Spec2Model ----
(***************************************************************************)
(* Memory lifecycle and context-window management of the travel concierge  *)
(* agent (src/agent.py, src/state.py): the TrimmingSession buffer, the     *)
(* one-shot session-memory injection flag, the note store, the instruction *)
(* builder and memory consolidation.                                       *)
(*                                                                         *)
(* Python strings are modelled as sequences of one-character strings, so   *)
(* that strip(), lower(), join and truthiness are computed, not assumed.   *)
(***************************************************************************)
EXTENDS Integers, Sequences, FiniteSets, TLC

\* ------------------------------------------------------------------ bounds

\* Largest max_turns argument handed to the TrimmingSession constructor.
MaxTurnsArg == 2
\* Largest buffer length (after the append, before the trim) that is explored.
MaxItems == 3
\* Largest number of session notes that is explored.
MaxNotes == 2
\* Largest number of global notes that is explored.
MaxGlobal == 2

\* ------------------------------------------------------- strings and lists

Whitespace == {" ", "\t", "\n"}

RECURSIVE lstrip(_)
lstrip(s) ==
    IF s # <<>> /\ Head(s) \in Whitespace THEN lstrip(Tail(s)) ELSE s

RECURSIVE rstrip(_)
rstrip(s) ==
    IF s # <<>> /\ s[Len(s)] \in Whitespace
    THEN rstrip(SubSeq(s, 1, Len(s) - 1))
    ELSE s

\* str.strip()
strip(s) == rstrip(lstrip(s))

\* str.lower() on the alphabet the model uses
lower_char(c) ==
    CASE c = "S" -> "s"
      [] c = "E" -> "e"
      [] c = "A" -> "a"
      [] c = "T" -> "t"
      [] OTHER -> c

lower(s) == [i \in 1..Len(s) |-> lower_char(s[i])]

\* seq[:n] for n >= 0
Take(s, n) == SubSeq(s, 1, IF n < Len(s) THEN n ELSE Len(s))

\* seq[start:] with Python's index rules: a negative start counts from the
\* end and is clamped at 0, a start past the end gives the empty list.
PySliceFrom(s, start) ==
    LET n == Len(s)
        b == IF start < 0
             THEN (IF n + start < 0 THEN 0 ELSE n + start)
             ELSE (IF start > n THEN n ELSE start)
    IN  SubSeq(s, b + 1, n)

\* seq[-k:]
LastK(s, k) == PySliceFrom(s, 0 - k)

\* "\n".join(lines)
RECURSIVE JoinLines(_)
JoinLines(lines) ==
    IF lines = <<>> THEN <<>>
    ELSE IF Len(lines) = 1 THEN lines[1]
    ELSE lines[1] \o <<"\n">> \o JoinLines(Tail(lines))

\* --------------------------------------------------- conversation entries

ROLE_USER == "user"

\* The value of item.get("role") when the entry has no role key.
NoRole == "<None>"

UserMsg      == [role |-> "user",      type |-> "message"]
AssistantMsg == [role |-> "assistant", type |-> "message"]
ToolCall     == [role |-> NoRole,      type |-> "function_call"]

\* The entries the runner hands to the session.
Entries == {UserMsg, AssistantMsg, ToolCall}

\* Every entry that is not the assistant's counted as a user entry.
role_less_is_user(item) == item.role # "assistant"

_is_user_msg(item) ==
    IF item.role # NoRole THEN item.role = ROLE_USER
    ELSE IF item.type = "message" THEN item.role = ROLE_USER
    ELSE FALSE

\* The backward scan of _trim_to_last_turns: i runs from the last index
\* (1-based here) down to 1; the result is the 1-based start index, which is
\* 1 when the loop ends without reaching max_turns user entries.
RECURSIVE TrimScan(_, _, _, _)
TrimScan(items, i, count, k) ==
    IF i < 1 THEN 1
    ELSE IF _is_user_msg(items[i])
         THEN (IF count + 1 = k THEN i ELSE TrimScan(items, i - 1, count + 1, k))
         ELSE TrimScan(items, i - 1, count, k)

\* The trim with its comparison off by one: the cut is made at user entry
\* max_turns + 1 counted from the end.
trim_past_limit(items, k) ==
    IF items = <<>> THEN items
    ELSE SubSeq(items, TrimScan(items, Len(items), 0, k + 1), Len(items))

\* No trimming at all.
trim_disabled(items, k) == items

_trim_to_last_turns(items, k) ==
    IF items = <<>> THEN items
    ELSE SubSeq(items, TrimScan(items, Len(items), 0, k), Len(items))

\* Number of user-role entries of a buffer.
RECURSIVE UserCount(_)
UserCount(items) ==
    IF items = <<>> THEN 0
    ELSE (IF _is_user_msg(Head(items)) THEN 1 ELSE 0) + UserCount(Tail(items))

\* ------------------------------------------------------------ memory notes

\* datetime.now(timezone.utc), reduced to the fields strftime reads.
Clock == {[year |-> 2026, month |-> 1, day |-> 5]}

Digit(d) == <<"0", "1", "2", "3", "4", "5", "6", "7", "8", "9">>[d + 1]

\* strftime's zero-padded %m / %d and four-digit %Y
Pad2(n) == <<Digit((n \div 10) % 10), Digit(n % 10)>>
Pad4(n) == <<Digit((n \div 1000) % 10), Digit((n \div 100) % 10)>> \o Pad2(n % 100)

\* strftime("%Y-%m-%dT")
today_iso_utc(now) ==
    Pad4(now.year) \o <<"-">> \o Pad2(now.month) \o <<"-">> \o Pad2(now.day) \o <<"T">>

\* A keyword argument entry: a str with its characters, or a non-str value.
StrKw(chars) == [isstr |-> TRUE, s |-> chars]
NonStrKw == [isstr |-> FALSE, s |-> <<>>]

\* [k.strip().lower() for k in keywords if isinstance(k, str) and k.strip()][:3]
RECURSIVE FilterKeywords(_)
FilterKeywords(keywords) ==
    IF keywords = <<>> THEN <<>>
    ELSE LET k == Head(keywords)
             rest == FilterKeywords(Tail(keywords))
         IN  IF k.isstr /\ strip(k.s) # <<>>
             THEN <<lower(strip(k.s))>> \o rest
             ELSE rest

\* The list cut to three entries before the filter instead of after it.
keywords_cut_before_filter(keywords) == FilterKeywords(Take(keywords, 3))

clean_keywords(keywords) == Take(FilterKeywords(keywords), 3)

\* The dict save_memory_note appends.
NewNote(text, keywords, now) ==
    [text |-> strip(text),
     last_update_date |-> today_iso_utc(now),
     keywords |-> clean_keywords(keywords)]

\* Arguments the model passes to save_memory_note.
RawTexts == {<<" ", "a", " ">>, <<"b">>, <<" ">>}
RawKeywords == {<<StrKw(<<"S", "e", "a", "t">>), StrKw(<<" ">>), NonStrKw>>, <<>>}

\* A note the summarization model writes that was in neither list.
InventedNote ==
    [text |-> <<"c">>,
     last_update_date |-> <<"2", "0", "2", "5", "-", "1", "2", "-", "3", "1">>,
     keywords |-> <<>>]

\* A memory dict (global_memory / session_memory): tag says whether the
\* "notes" key holds a list, holds None, or is missing.
MemList(notes) == [tag |-> "list", notes |-> notes]
MemNone == [tag |-> "none", notes |-> <<>>]
MemMissing == [tag |-> "missing", notes |-> <<>>]
\* The field holds None in place of a dict (a JSON null that was loaded).
MemNull == [tag |-> "null", notes |-> <<>>]

\* trip_history the same way, its list under "trips".
TripList(trips) == [tag |-> "list", trips |-> trips]
TripsMissing == [tag |-> "missing", trips |-> <<>>]
TripsNull == [tag |-> "null", trips |-> <<>>]
\* The trips of the default user state, opaque to the agent's operations.
DefaultTrips == TripList(<<"trip">>)

\* mem.get("notes", []) or []
NotesOrEmpty(mem) == IF mem.tag = "list" THEN mem.notes ELSE <<>>

\* --------------------------------------------------------------- rendering

\* The empty string in place of the placeholder.
placeholder_empty == <<>>

Placeholder == <<"-", " ", "(", "n", "o", "n", "e", ")">>

Bullet(n) == <<"-", " ">> \o n.text

\* Code points of the characters that occur in dates.
CharOrd(c) ==
    CASE c = "-" -> 45
      [] c = "0" -> 48 [] c = "1" -> 49 [] c = "2" -> 50 [] c = "3" -> 51
      [] c = "4" -> 52 [] c = "5" -> 53 [] c = "6" -> 54 [] c = "7" -> 55
      [] c = "8" -> 56 [] c = "9" -> 57
      [] c = "T" -> 84
      [] OTHER -> 0

\* Python's str <
RECURSIVE StrLess(_, _)
StrLess(a, b) ==
    IF b = <<>> THEN FALSE
    ELSE IF a = <<>> THEN TRUE
    ELSE IF Head(a) = Head(b) THEN StrLess(Tail(a), Tail(b))
    ELSE CharOrd(Head(a)) < CharOrd(Head(b))

\* One step of the stable descending sort: n goes before the first note
\* whose date is strictly smaller, after every note of equal date.
RECURSIVE InsertByDateDesc(_, _)
InsertByDateDesc(sorted, n) ==
    IF sorted = <<>> THEN <<n>>
    ELSE IF StrLess(Head(sorted).last_update_date, n.last_update_date)
         THEN <<n>> \o sorted
         ELSE <<Head(sorted)>> \o InsertByDateDesc(Tail(sorted), n)

\* sorted(notes, key=lambda n: n.get("last_update_date", ""), reverse=True)
RECURSIVE SortByDateDesc(_)
SortByDateDesc(notes) ==
    IF notes = <<>> THEN <<>>
    ELSE InsertByDateDesc(SortByDateDesc(SubSeq(notes, 1, Len(notes) - 1)),
                          notes[Len(notes)])

Bullets(notes) == JoinLines([i \in 1..Len(notes) |-> Bullet(notes[i])])

\* Default k of render_global_memories_md / render_session_memories_md.
GlobalK == 6
SessionK == 8

\* The first k notes as stored, the sort left out.
render_global_unsorted(global_notes, k) ==
    IF global_notes = <<>> THEN Placeholder
    ELSE Bullets(Take(global_notes, k))

\* The first k session notes instead of the last k.
render_session_first_k(session_notes, k) ==
    IF session_notes = <<>> THEN Placeholder
    ELSE Bullets(Take(session_notes, k))

\* The empty string for an empty list.
render_session_blank_when_empty(session_notes, k) ==
    IF session_notes = <<>> THEN <<>>
    ELSE Bullets(LastK(session_notes, k))

render_global_memories_md(global_notes, k) ==
    IF global_notes = <<>> THEN Placeholder
    ELSE Bullets(Take(SortByDateDesc(global_notes), k))

render_session_memories_md(session_notes, k) ==
    IF session_notes = <<>> THEN Placeholder
    ELSE Bullets(LastK(session_notes, k))

\* yaml.safe_dump of the profile between "---" lines; the profile is opaque.
render_frontmatter(profile) == <<"---\n", profile, "\n---">>

\* (mem or {}).get("notes", []) handed to a renderer, whose "if not notes"
\* treats None like the empty list.
NotesForRender(mem) == IF mem.tag = "list" THEN mem.notes ELSE <<>>

SessionHeader == <<"\n\nSESSION memory (temporary; overrides GLOBAL when conflicting):\n">>

\* ---------------------------------------------- the summarization response

\* What client.chat.completions.create does: it raises, returns a response
\* with no choices, or returns a message whose content is None or a text.
\* A text is described by what json.loads makes of it after strip().
NoContent == [present |-> FALSE, syntax |-> "empty", value |-> <<>>]
TextContent(syntax, value) == [present |-> TRUE, syntax |-> syntax, value |-> value]

RespRaise == [kind |-> "raise", content |-> NoContent]
RespNoChoices == [kind |-> "no_choices", content |-> NoContent]
RespReturn(content) == [kind |-> "return", content |-> content]

\* (content or "").strip()
consolidated_text(content) ==
    IF content.present THEN content ELSE TextContent("empty", <<>>)

\* json.loads(text): raises on the empty or malformed text, else the value.
json_loads(text) ==
    CASE text.syntax = "list"   -> [raised |-> FALSE, islist |-> TRUE,  value |-> text.value]
      [] text.syntax = "object" -> [raised |-> FALSE, islist |-> FALSE, value |-> <<>>]
      [] OTHER                  -> [raised |-> TRUE,  islist |-> FALSE, value |-> <<>>]

\* A note kept in long-term memory when the state is loaded.
StoredNote ==
    [text |-> <<"g">>,
     last_update_date |-> <<"2", "0", "2", "5", "-", "0", "4", "-", "0", "5">>,
     keywords |-> <<<<"b", "a", "g">>>>]

\* The lists the summarization model may answer with.
ListAnswers(global_notes, session_notes) ==
    {l \in {<<>>, <<InventedNote>>, session_notes, global_notes \o session_notes,
            session_notes \o global_notes} : Len(l) <= MaxGlobal}

Responses(global_notes, session_notes) ==
    {RespRaise, RespNoChoices, RespReturn(NoContent),
     RespReturn(TextContent("invalid", <<>>)),
     RespReturn(TextContent("object", <<>>))}
    \cup {RespReturn(TextContent("list", l)) : l \in ListAnswers(global_notes, session_notes)}

\* The fallback with the two lists in the other order.
fallback_session_first(global_notes, session_notes, text) ==
    LET parsed == json_loads(text)
    IN  IF parsed.raised THEN session_notes \o global_notes
        ELSE IF parsed.islist THEN parsed.value
        ELSE session_notes \o global_notes

\* The answer tested for truth ("if consolidated_notes:") instead of for
\* being a list: the empty list takes the fallback.
empty_list_is_failure(global_notes, session_notes, text) ==
    LET parsed == json_loads(text)
    IN  IF parsed.raised THEN global_notes \o session_notes
        ELSE IF parsed.islist /\ parsed.value # <<>> THEN parsed.value
        ELSE global_notes \o session_notes

\* Lines 490-497: the notes written to global_memory["notes"].
ConsolidatedGlobal(global_notes, session_notes, text) ==
    LET parsed == json_loads(text)
    IN  IF parsed.raised THEN global_notes \o session_notes
        ELSE IF parsed.islist THEN parsed.value
        ELSE global_notes \o session_notes

\* ------------------------------------------------------------------- state

VARIABLES
    max_turns,                          \* TrimmingSession.max_turns
    items,                              \* TrimmingSession._items
    inject_session_memories_next_turn,  \* TravelState fields
    profile,
    global_memory,
    session_memory,
    trip_history,
    system_frontmatter,
    global_memories_md,
    session_memories_md,
    last,                               \* the last operation: its inputs, what
                                        \* it saw and what it returned
    trim_pending,                       \* history: an add_items has discarded
                                        \* entries since the last SESSION block
    _lock,                              \* TrimmingSession._lock is held
    coros,                              \* the frame of each coroutine running
                                        \* a TrimmingSession method
    messages                            \* st.session_state.messages

vars == <<max_turns, items, inject_session_memories_next_turn, profile,
          global_memory, session_memory, trip_history, system_frontmatter,
          global_memories_md, session_memories_md, last, trim_pending,
          _lock, coros, messages>>

conc_vars == <<_lock, coros>>

session_vars == <<max_turns, items>>
persisted_vars == <<profile, global_memory, session_memory, trip_history>>
cache_vars == <<system_frontmatter, global_memories_md, session_memories_md>>

\* The coroutines that may run methods of one session at the same time.
Tasks == {"a", "b"}

\* No method is running in any coroutine and the lock is free.
IdleFrame == [pc |-> "idle"]
NoCoroutines == _lock = FALSE /\ coros = [t \in Tasks |-> IdleFrame]

\* The chat of a new page (app.py line 121).
NoMessages == messages = <<>>

\* max(1, int(max_turns))
NormalizeMaxTurns(arg) == IF arg < 1 THEN 1 ELSE arg

\* The fields every initial state shares: a new TrimmingSession (line 225)
\* over a TravelState whose cache fields and flag hold the dataclass defaults.
InitWith(memories) ==
    /\ \E arg \in 0..MaxTurnsArg : max_turns = NormalizeMaxTurns(arg)
    /\ items = <<>>
    /\ inject_session_memories_next_turn = FALSE
    /\ profile = "profile"
    /\ \E m \in memories : global_memory = m[1] /\ session_memory = m[2]
    /\ trip_history = DefaultTrips
    /\ system_frontmatter = <<>>
    /\ global_memories_md = <<>>
    /\ session_memories_md = <<>>
    /\ last = [op |-> "init"]
    /\ trim_pending = FALSE
    /\ NoCoroutines
    /\ NoMessages

\* (global_memory, session_memory) of TravelState() and of the default user state.
DefaultMemories ==
    {<<MemList(<<>>), MemList(<<>>)>>,
     <<MemList(<<StoredNote>>), MemList(<<>>)>>}

\* (global_memory, session_memory) of TravelState.from_dict(data): as above,
\* or dicts whose "notes" key holds None or is missing.
LoadedMemories ==
    DefaultMemories \cup {<<MemNone, MemNone>>, <<MemMissing, MemMissing>>}

Init == InitWith(DefaultMemories)

InitLoaded == InitWith(LoadedMemories)

\* ----------------------------------------------------- TrimmingSession ops

Limits == {[given |-> FALSE, n |-> 0]} \cup {[given |-> TRUE, n |-> i] : i \in -1..2}

GetItemsResult(buf, k, limit) ==
    LET trimmed == _trim_to_last_turns(buf, k)
    IN  IF limit.given /\ limit.n >= 0 THEN LastK(trimmed, limit.n) ELSE trimmed

get_items(limit) ==
    /\ last' = [op |-> "get_items", limit |-> limit,
                ret |-> GetItemsResult(items, max_turns, limit)]
    /\ UNCHANGED <<messages, conc_vars, session_vars, inject_session_memories_next_turn,
                   persisted_vars, cache_vars, trim_pending>>

\* The lists handed to add_items.
AddLists == {<<>>} \cup {<<e>> : e \in Entries} \cup {<<e, f>> : e, f \in Entries}

\* The flag raised only when the trim drops two entries or more.
flag_when_two_dropped(flag, trimmed, original_len) ==
    IF Len(trimmed) < original_len - 1 THEN TRUE ELSE flag

\* The flag raised by every append.
flag_on_any_append(flag, trimmed, original_len) == TRUE

\* The flag tells whether this very call trimmed.
flag_follows_trim(flag, trimmed, original_len) == Len(trimmed) < original_len

\* Lines 240-241: the flag after the trim.
FlagAfterTrim(flag, trimmed, original_len) ==
    IF Len(trimmed) < original_len THEN TRUE ELSE flag

add_items(new) ==
    /\ Len(items) + Len(new) <= MaxItems
    /\ IF new = <<>>
       THEN /\ UNCHANGED <<items, inject_session_memories_next_turn, trim_pending>>
            /\ last' = [op |-> "add_items", new |-> new, appended |-> items,
                        pre_flag |-> inject_session_memories_next_turn]
       ELSE LET appended == items \o new
                original_len == Len(appended)
                trimmed == _trim_to_last_turns(appended, max_turns)
            IN  /\ inject_session_memories_next_turn' =
                       FlagAfterTrim(inject_session_memories_next_turn, trimmed, original_len)
                /\ items' = trimmed
                /\ trim_pending' = (trim_pending \/ Len(items') < Len(appended))
                /\ last' = [op |-> "add_items", new |-> new, appended |-> appended,
                            pre_flag |-> inject_session_memories_next_turn]
    /\ UNCHANGED <<messages, conc_vars, max_turns, persisted_vars, cache_vars>>

\* The entry taken from the left end (popleft).
popped_from_left(buf) == [ret |-> <<buf[1]>>, rest |-> Tail(buf)]

\* deque.pop() on a non-empty buffer: the entry returned, the entries left.
Popped(buf) == [ret |-> <<buf[Len(buf)]>>, rest |-> SubSeq(buf, 1, Len(buf) - 1)]

pop_item ==
    /\ IF items # <<>>
       THEN /\ items' = Popped(items).rest
            /\ last' = [op |-> "pop_item", pre_items |-> items,
                        ret |-> Popped(items).ret]
       ELSE /\ items' = items
            /\ last' = [op |-> "pop_item", pre_items |-> items, ret |-> <<>>]
    /\ UNCHANGED <<messages, conc_vars, max_turns, inject_session_memories_next_turn, persisted_vars,
                   cache_vars, trim_pending>>

clear_session ==
    /\ items' = <<>>
    /\ last' = [op |-> "clear_session"]
    /\ UNCHANGED <<messages, conc_vars, max_turns, inject_session_memories_next_turn, persisted_vars,
                   cache_vars, trim_pending>>

\* -------------------------------------------------------- save_memory_note

\* The note stored in place of the list.
note_replaces_list(mem, note) == MemList(<<note>>)

\* Lines 72-85: session_memory after the append.
SessionAfterSave(mem, note) == MemList(NotesOrEmpty(mem) \o <<note>>)

\* On a session_memory that is None line 72 raises TypeError ("notes" not
\* in None) and nothing is stored.
save_memory_note(text, keywords, now) ==
    /\ Len(NotesOrEmpty(session_memory)) < MaxNotes
    /\ IF session_memory.tag = "null"
       THEN /\ UNCHANGED session_memory
            /\ last' = [op |-> "save_memory_note", pre_session |-> session_memory,
                        text |-> text, keywords |-> keywords,
                        note |-> NewNote(text, keywords, now),
                        ret |-> [raised |-> "TypeError"]]
       ELSE /\ session_memory' =
                   SessionAfterSave(session_memory, NewNote(text, keywords, now))
            /\ last' = [op |-> "save_memory_note", pre_session |-> session_memory,
                        text |-> text, keywords |-> keywords,
                        note |-> NewNote(text, keywords, now), ret |-> [ok |-> TRUE]]
    /\ UNCHANGED <<messages, conc_vars, session_vars, inject_session_memories_next_turn, profile,
                   global_memory, trip_history, cache_vars, trim_pending>>

\* ------------------------------------------------------ MemoryHooks.on_start

\* The global block rendered only while the cache is empty.
global_md_rendered_once(md, mem) ==
    IF md # <<>> THEN md
    ELSE render_global_memories_md(NotesForRender(mem), GlobalK)

\* Lines 368-370: the global render cache after on_start.
GlobalMdAfterStart(md, mem) ==
    render_global_memories_md(NotesForRender(mem), GlobalK)

on_start ==
    /\ system_frontmatter' = render_frontmatter(profile)
    /\ global_memories_md' = GlobalMdAfterStart(global_memories_md, global_memory)
    /\ session_memories_md' =
           IF inject_session_memories_next_turn
           THEN render_session_memories_md(NotesForRender(session_memory), SessionK)
           ELSE <<>>
    /\ last' = [op |-> "on_start"]
    /\ UNCHANGED <<messages, conc_vars, session_vars, inject_session_memories_next_turn, persisted_vars,
                   trim_pending>>

\* -------------------------------------------------------- build_instructions

\* Lines 395-398: the session render cache after the lazy render.
LazySessionMd(flag, md, mem) ==
    IF flag /\ md = <<>>
    THEN render_session_memories_md(NotesForRender(mem), SessionK)
    ELSE md

\* The block emitted only for a render that lists notes.
emits_only_with_notes(flag, md) == flag /\ md # <<>> /\ md # Placeholder

\* Line 401: whether the SESSION block is emitted.
EmitsSessionBlock(flag, md) == flag /\ md # <<>>

\* Lines 400-405
session_block(flag, md) ==
    IF EmitsSessionBlock(flag, md) THEN SessionHeader \o md ELSE <<>>

\* The flag left as it is by the build.
flag_kept_after_build(flag, md) == flag

\* Lines 406-407: the flag after the build.
FlagAfterBuild(flag, md) == IF EmitsSessionBlock(flag, md) THEN FALSE ELSE flag

\* Lines 415-423: the parts of the returned string that depend on the state.
Instructions(frontmatter, global_md, block) ==
    [user_profile |-> frontmatter,
     global_block |-> IF global_md # <<>> THEN global_md ELSE Placeholder,
     session_block |-> block]

build_instructions ==
    LET md == LazySessionMd(inject_session_memories_next_turn, session_memories_md,
                            session_memory)
        emits == EmitsSessionBlock(inject_session_memories_next_turn, md)
    IN  /\ inject_session_memories_next_turn' =
               FlagAfterBuild(inject_session_memories_next_turn, md)
        /\ session_memories_md' = IF emits THEN <<>> ELSE md
        /\ last' = [op |-> "build_instructions",
                    pre_flag |-> inject_session_memories_next_turn,
                    pre_notes |-> NotesForRender(session_memory),
                    ret |-> Instructions(system_frontmatter, global_memories_md,
                                         session_block(inject_session_memories_next_turn, md))]
        /\ trim_pending' = (trim_pending /\ last'.ret.session_block = <<>>)
        /\ UNCHANGED <<messages, conc_vars, session_vars, persisted_vars, system_frontmatter, global_memories_md>>

\* -------------------------------------------------------- consolidate_memory

\* The call without its early return.
outcome_without_early_return(session_notes, resp) ==
    IF resp.kind # "return" THEN "raised" ELSE "done"

\* How the call ends: "noop" (the return of line 440), "raised" (the
\* exception of line 483 or 488 leaves the function: neither is inside the
\* try) or "done" (line 499 was reached).
ConsolidateOutcome(session_notes, resp) ==
    IF session_notes = <<>> THEN "noop"
    ELSE IF resp.kind # "return" THEN "raised"
    ELSE "done"

\* state.session_memory.get (line 438) and state.global_memory.get (line
\* 442) raise AttributeError on a field that is None.
consolidate_memory(resp) ==
    LET session_notes == NotesOrEmpty(session_memory)
        global_notes == NotesOrEmpty(global_memory)
        outcome == IF session_memory.tag = "null" THEN "raised"
                   ELSE IF session_notes # <<>> /\ global_memory.tag = "null"
                        THEN "raised"
                   ELSE ConsolidateOutcome(session_notes, resp)
    IN  /\ Len(global_notes) + Len(session_notes) <= MaxGlobal
        /\ IF outcome = "done"
           THEN /\ global_memory' =
                       MemList(ConsolidatedGlobal(global_notes, session_notes,
                                                  consolidated_text(resp.content)))
                /\ session_memory' = MemList(<<>>)
           ELSE UNCHANGED <<global_memory, session_memory>>
        /\ last' = [op |-> "consolidate_memory", outcome |-> outcome,
                    delegated |-> (outcome # "noop"), resp |-> resp,
                    pre_global |-> global_memory, pre_session |-> session_memory]
        /\ UNCHANGED <<messages, conc_vars, session_vars, inject_session_memories_next_turn, profile,
                       trip_history, cache_vars, trim_pending>>

\* ---------------------------------------------------------- specifications

NoLimit == [given |-> FALSE, n |-> 0]

\* One turn's worth of entries: nothing, the user input, an answer, a tool
\* call, the input with its answer.
TurnLists == {<<>>, <<UserMsg>>, <<AssistantMsg>>, <<UserMsg, AssistantMsg>>}

\* One note text with one keyword list.
CoreTexts == {<<" ", "a", " ">>}
CoreKeywords == {<<StrKw(<<"S", "e", "a", "t">>), StrKw(<<" ">>), NonStrKw>>}

\* The summarization outcomes of each kind, with the shortest lists.
CoreResponses ==
    {RespRaise, RespReturn(TextContent("invalid", <<>>)),
     RespReturn(TextContent("list", <<>>)),
     RespReturn(TextContent("list", <<InventedNote>>))}

\* The whole agent: the session, the note store, the hooks, the instruction
\* builder and consolidation, in any order.
Next ==
    \/ get_items(NoLimit)
    \/ \E new \in TurnLists : add_items(new)
    \/ pop_item
    \/ clear_session
    \/ \E text \in CoreTexts, keywords \in CoreKeywords, now \in Clock :
          save_memory_note(text, keywords, now)
    \/ on_start
    \/ build_instructions
    \/ \E resp \in CoreResponses : consolidate_memory(resp)

Spec == Init /\ [][Next]_vars

\* The TrimmingSession with every argument, and the instruction builder
\* that consumes its flag.
NextSession ==
    \/ \E limit \in Limits : get_items(limit)
    \/ \E new \in AddLists : add_items(new)
    \/ pop_item
    \/ clear_session
    \/ build_instructions

SpecSession == Init /\ [][NextSession]_vars

\* The note store and consolidation alone, with every response.
NextMemory ==
    \/ \E text \in RawTexts, keywords \in RawKeywords, now \in Clock :
          save_memory_note(text, keywords, now)
    \/ \E resp \in Responses(NotesOrEmpty(global_memory), NotesOrEmpty(session_memory)) :
          consolidate_memory(resp)

SpecMemory == InitLoaded /\ [][NextMemory]_vars

\* ------------------------------------------------------------------ claims

TravelStateVars ==
    <<inject_session_memories_next_turn, profile, global_memory, session_memory,
      trip_history, system_frontmatter, global_memories_md, session_memories_md>>

\* C1: whenever an operation of the TrimmingSession has returned, the stored
\* buffer holds at most max_turns user-role entries.
C1_AtMostMaxTurnsUsers == UserCount(items) <= max_turns

\* C1 witness: an add_items whose appended buffer held more than max_turns
\* user entries has returned, and the buffer holds exactly max_turns.
C1_Witness ==
    /\ last.op = "add_items"
    /\ UserCount(last.appended) > max_turns
    /\ UserCount(items) = max_turns

\* C2: when add_items returns and the buffer held, after the append, strictly
\* more than max_turns user entries, the flag is true; and the flag is raised
\* by the call exactly when the trimmed view is strictly shorter than the
\* buffer before the trim (a flag that was already true stays true).
C2_FlagSetWhenTrimmed ==
    (last.op = "add_items" /\ last.new # <<>>) =>
        /\ UserCount(last.appended) > max_turns => inject_session_memories_next_turn
        /\ inject_session_memories_next_turn =
               (last.pre_flag \/ Len(items) < Len(last.appended))

\* C2 witness: the flag was false, the append brought the buffer over
\* max_turns user entries, and the flag is true.
C2_Witness ==
    /\ last.op = "add_items"
    /\ ~last.pre_flag
    /\ UserCount(last.appended) > max_turns
    /\ inject_session_memories_next_turn

\* C3: a build_instructions called with the flag true and at least one
\* session note has emitted a SESSION block and left the flag false and the
\* session render cache empty; and a build_instructions that is the very next
\* step emits no SESSION block.
C3_OneShotInjection ==
    [][(last.op = "build_instructions" /\ last.pre_flag /\ last.pre_notes # <<>>) =>
           /\ last.ret.session_block # <<>>
           /\ ~inject_session_memories_next_turn
           /\ session_memories_md = <<>>
           /\ last'.op = "build_instructions" => last'.ret.session_block = <<>>]_vars

\* C3 witness: the build that found the flag true and a session note has
\* emitted the block.
C3_Witness ==
    /\ last.op = "build_instructions"
    /\ last.pre_flag
    /\ last.pre_notes # <<>>
    /\ last.ret.session_block # <<>>
    /\ ~inject_session_memories_next_turn

\* C4: build_instructions emits a SESSION block only if an add_items has
\* discarded entries since the previous emission (or since the state was
\* created), and the emission uses that trim event up.
C4_EmissionNeedsTrim ==
    [][(last'.op = "build_instructions" /\ last'.ret.session_block # <<>>) =>
           (trim_pending /\ ~trim_pending')]_vars

\* C4 witness: a block was emitted after notes had been saved.
C4_Witness ==
    /\ last.op = "build_instructions"
    /\ last.ret.session_block # <<>>
    /\ last.pre_notes # <<>>
    /\ ~trim_pending

\* C5: after consolidate_memory called with session notes, session_memory's
\* notes are the empty list, whatever the summarization call does.
C5_SessionClearedWhateverTheCall ==
    (last.op = "consolidate_memory" /\ NotesOrEmpty(last.pre_session) # <<>>) =>
        session_memory = MemList(<<>>)

\* C6: when the summarization call raises, consolidate_memory returns
\* normally with global notes = prior global notes followed by prior session
\* notes.
C6_RaiseFallsBackToUnion ==
    (/\ last.op = "consolidate_memory"
     /\ NotesOrEmpty(last.pre_session) # <<>>
     /\ last.resp.kind = "raise") =>
        /\ last.outcome = "done"
        /\ global_memory =
               MemList(NotesOrEmpty(last.pre_global) \o NotesOrEmpty(last.pre_session))

\* C7: when the summarization call returns a text that is not valid JSON, or
\* that parses to something other than a list, global_memory's notes are the
\* prior global notes followed by the prior session notes.
C7_MalformedAnswerGivesUnion ==
    (/\ last.op = "consolidate_memory"
     /\ NotesOrEmpty(last.pre_session) # <<>>
     /\ last.resp.kind = "return"
     /\ last.resp.content.syntax \in {"invalid", "empty", "object"}) =>
        global_memory =
            MemList(NotesOrEmpty(last.pre_global) \o NotesOrEmpty(last.pre_session))

\* C7 witness: a non-list answer, with notes in both lists before the call.
C7_Witness ==
    /\ last.op = "consolidate_memory"
    /\ last.resp.kind = "return"
    /\ last.resp.content.syntax = "object"
    /\ NotesOrEmpty(last.pre_global) # <<>>
    /\ NotesOrEmpty(last.pre_session) # <<>>
    /\ Len(global_memory.notes) = Len(last.pre_global.notes) + Len(last.pre_session.notes)

\* C8: when the summarization call returns a text that parses to a list,
\* global_memory's notes are exactly that list.
C8_ListAnswerReplacesGlobal ==
    (/\ last.op = "consolidate_memory"
     /\ NotesOrEmpty(last.pre_session) # <<>>
     /\ last.resp.kind = "return"
     /\ last.resp.content.present
     /\ last.resp.content.syntax = "list") =>
        global_memory = MemList(last.resp.content.value)

\* C8 witness: the empty list was returned while both lists held notes, and
\* global memory is empty.
C8_Witness ==
    /\ last.op = "consolidate_memory"
    /\ last.resp.kind = "return"
    /\ last.resp.content.syntax = "list"
    /\ last.resp.content.value = <<>>
    /\ NotesOrEmpty(last.pre_global) # <<>>
    /\ NotesOrEmpty(last.pre_session) # <<>>
    /\ global_memory = MemList(<<>>)

\* C9: consolidate_memory called when the session notes are empty, None or
\* missing makes no summarization call and changes no field of the
\* TravelState; so the consolidate_memory that directly follows one that
\* completed is such a no-op.
C9_EmptySessionIsNoOp ==
    [][(last'.op = "consolidate_memory" /\ NotesOrEmpty(session_memory) = <<>>) =>
           /\ ~last'.delegated
           /\ UNCHANGED TravelStateVars
           /\ (last.op = "consolidate_memory" /\ last.outcome = "done") =>
                  last'.outcome = "noop"]_vars

\* C9 witness: a consolidation that found no session notes has returned,
\* after an earlier one had written its answer to global memory.
C9_Witness ==
    /\ last.op = "consolidate_memory"
    /\ last.outcome = "noop"
    /\ last.pre_session = MemList(<<>>)
    /\ global_memory = MemList(<<InventedNote>>)

\* C10: save_memory_note appends exactly one note at the end of the session
\* notes, keeps the notes stored before in place, changes neither
\* global_memory, profile, trip_history nor the flag, and returns {ok: true}.
C10_SaveAppendsOneNote ==
    [][last'.op = "save_memory_note" =>
           /\ session_memory'.tag = "list"
           /\ session_memory'.notes = NotesOrEmpty(session_memory) \o <<last'.note>>
           /\ UNCHANGED <<global_memory, profile, trip_history,
                          inject_session_memories_next_turn>>
           /\ last'.ret = [ok |-> TRUE]]_vars

\* C10 witness: a second note was saved behind the first.
C10_Witness ==
    /\ last.op = "save_memory_note"
    /\ Len(NotesOrEmpty(last.pre_session)) = 1
    /\ Len(session_memory.notes) = 2
    /\ session_memory.notes[1] = last.pre_session.notes[1]
    /\ session_memory.notes[2] = last.note

\* ------------------------------------------- save_memory_note on its inputs

KwSeat   == StrKw(<<"S", "e", "a", "t">>)
KwBlank  == StrKw(<<" ", " ">>)
KwUpper  == StrKw(<<"S", "E", "A", "T">>)
KwExtra  == StrKw(<<"e", "x", "t", "r", "a">>)
KwMore   == StrKw(<<"m", "o", "r", "e">>)
KwPadded == StrKw(<<" ", "T", "e", "a", "\n">>)

\* save_note("  Prefers window seats ", ["Seat", "  ", "SEAT", "extra", "more"])
ExampleKeywords == <<KwSeat, KwBlank, KwUpper, KwExtra, KwMore>>

\* Largest keyword list that is enumerated.
MaxKeywords == 4

\* The keyword lists handed to save_memory_note: every list of up to
\* MaxKeywords entries, and the five-entry example.
KeywordLists ==
    UNION {[1..n -> {KwSeat, KwBlank, KwPadded, NonStrKw}] : n \in 0..MaxKeywords}
    \cup {ExampleKeywords}

\* Values of datetime.now(timezone.utc).
Clocks ==
    {[year |-> 2026, month |-> 1, day |-> 5],
     [year |-> 1999, month |-> 11, day |-> 9]}

\* save_memory_note called once on a state as loaded, with every keyword
\* list on every date.
NextSave ==
    \E text \in CoreTexts, keywords \in KeywordLists, now \in Clocks :
        /\ NotesOrEmpty(session_memory) = <<>>
        /\ save_memory_note(text, keywords, now)

SpecSave == InitLoaded /\ [][NextSave]_vars

\* out is raw without its leading and trailing whitespace.
IsStripOf(raw, out) ==
    \E a, b \in 0..Len(raw) :
        /\ a + b <= Len(raw)
        /\ out = SubSeq(raw, a + 1, Len(raw) - b)
        /\ \A i \in 1..a : raw[i] \in Whitespace
        /\ \A i \in (Len(raw) - b + 1)..Len(raw) : raw[i] \in Whitespace
        /\ out # <<>> => (out[1] \notin Whitespace /\ out[Len(out)] \notin Whitespace)

\* out is s with its upper-case letters replaced by the lower-case ones.
IsLowerOf(s, out) ==
    /\ Len(out) = Len(s)
    /\ \A i \in 1..Len(s) :
          /\ out[i] \notin {"S", "E", "A", "T"}
          /\ out[i] # s[i] => <<s[i], out[i]>> \in
                 {<<"S", "s">>, <<"E", "e">>, <<"A", "a">>, <<"T", "t">>}

\* The positions of the entries that are strings with a non-blank character.
UsableIdx(keywords) ==
    {i \in 1..Len(keywords) :
        keywords[i].isstr /\ \E c \in 1..Len(keywords[i].s) : keywords[i].s[c] \notin Whitespace}

\* The position of the j-th usable entry.
NthUsable(keywords, j) ==
    CHOOSE i \in UsableIdx(keywords) :
        Cardinality({x \in UsableIdx(keywords) : x <= i}) = j

\* C11: the note stored by save_memory_note holds the first three usable
\* keyword entries (strings that are not blank), in input order, duplicates
\* kept, each stripped and lower-cased; its text is the stripped text.
\* ["Seat", "  ", "SEAT", "extra", "more"] gives ["seat", "seat", "extra"].
C11_KeywordsFilteredThenCut ==
    last.op = "save_memory_note" =>
        LET out == last.note.keywords
            n == Cardinality(UsableIdx(last.keywords))
        IN  /\ Len(out) = IF n < 3 THEN n ELSE 3
            /\ \A j \in 1..Len(out) :
                  \E mid \in {strip(last.keywords[NthUsable(last.keywords, j)].s)} :
                      /\ IsStripOf(last.keywords[NthUsable(last.keywords, j)].s, mid)
                      /\ IsLowerOf(mid, out[j])
            /\ IsStripOf(last.text, last.note.text)
            /\ last.keywords = ExampleKeywords =>
                   out = <<<<"s", "e", "a", "t">>, <<"s", "e", "a", "t">>,
                           <<"e", "x", "t", "r", "a">>>>

\* C11 witness: the example list was stored as seat, seat, extra.
C11_Witness ==
    /\ last.op = "save_memory_note"
    /\ last.keywords = ExampleKeywords
    /\ last.text = <<" ", "a", " ">>
    /\ last.note.text = <<"a">>
    /\ Len(last.note.keywords) = 3
    /\ last.note.keywords[3] = <<"e", "x", "t", "r", "a">>

IsDigit(c) == c \in {"0", "1", "2", "3", "4", "5", "6", "7", "8", "9"}

\* YYYY-MM-DD and nothing else
IsDateOnly(d) ==
    /\ Len(d) = 10
    /\ \A i \in {1, 2, 3, 4, 6, 7, 9, 10} : IsDigit(d[i])
    /\ d[5] = "-"
    /\ d[8] = "-"

\* C12: every note written by save_memory_note carries a last_update_date of
\* the exact form YYYY-MM-DD.
C12_DateIsDateOnly ==
    last.op = "save_memory_note" => IsDateOnly(last.note.last_update_date)

\* C13: every string build_instructions returns holds a GLOBAL block,
\* whatever the flag; in the build that follows on_start (the start of a
\* turn) the block is the rendering of the global notes as they stand, the
\* placeholder when there are none.
C13_GlobalBlockAlwaysFresh ==
    [][last'.op = "build_instructions" =>
           /\ last'.ret.global_block # <<>>
           /\ last.op = "on_start" =>
                  /\ last'.ret.global_block =
                         render_global_memories_md(NotesForRender(global_memory), GlobalK)
                  /\ NotesForRender(global_memory) = <<>> =>
                         last'.ret.global_block = Placeholder
                  /\ NotesForRender(global_memory) # <<>> =>
                         last'.ret.global_block # Placeholder]_vars

\* C13 witness: the block shows the note a consolidation wrote to global
\* memory, while no SESSION block is emitted.
C13_Witness ==
    /\ last.op = "build_instructions"
    /\ ~last.pre_flag
    /\ global_memory = MemList(<<InventedNote>>)
    /\ last.ret.global_block = <<"-", " ", "c">>
    /\ last.ret.session_block = <<>>

\* C14: get_items(limit), for every limit >= 0, returns the last
\* min(limit, n) entries of the trimmed view (n its length) in their order,
\* and the whole trimmed view when no limit is given.
C14_LimitGivesLastEntries ==
    last.op = "get_items" =>
        LET view == _trim_to_last_turns(items, max_turns)
            n == Len(view)
            m == IF last.limit.n < n THEN last.limit.n ELSE n
        IN  IF last.limit.given /\ last.limit.n >= 0
            THEN /\ Len(last.ret) = m
                 /\ \A i \in 1..m : last.ret[i] = view[n - m + i]
            ELSE last.limit.given \/ last.ret = view

\* C15: pop_item removes and returns the last entry of the buffer and leaves
\* the entries before it in order; on the empty buffer it returns None and
\* the buffer stays empty; clear_session leaves the buffer empty.
C15_PopTakesLastEntry ==
    [][/\ last'.op = "pop_item" =>
              IF items = <<>>
              THEN last'.ret = <<>> /\ items' = <<>>
              ELSE /\ Len(last'.ret) = 1
                   /\ last'.ret[1] = items[Len(items)]
                   /\ Len(items') = Len(items) - 1
                   /\ \A i \in 1..Len(items') : items'[i] = items[i]
       /\ last'.op = "clear_session" => items' = <<>>]_vars

\* C15 witness: the assistant entry behind a user entry was popped.
C15_Witness ==
    /\ last.op = "pop_item"
    /\ last.pre_items = <<UserMsg, AssistantMsg>>
    /\ last.ret = <<AssistantMsg>>
    /\ items = <<UserMsg>>

\* ------------------------------------------------- the renderers alone

MaxRenderNotes == 3
MaxRenderK == 3

DatedNote(text, year) ==
    [text |-> text,
     last_update_date |-> year \o <<"-", "0", "1", "-", "0", "1">>,
     keywords |-> <<>>]

Note2024 == DatedNote(<<"2", "0", "2", "4">>, <<"2", "0", "2", "4">>)
Note2025 == DatedNote(<<"2", "0", "2", "5">>, <<"2", "0", "2", "5">>)
Note2023 == DatedNote(<<"2", "0", "2", "3">>, <<"2", "0", "2", "3">>)
\* A second note of 2024, told apart by its text.
Note2024b == DatedNote(<<"t", "i", "e">>, <<"2", "0", "2", "4">>)

RenderPool == {Note2024, Note2025, Note2023, Note2024b}

\* Ten notes "0" .. "9" in append order, their dates going up and down.
TenNotes ==
    [i \in 1..10 |->
        DatedNote(<<Digit(i - 1)>>,
                  IF i % 2 = 0 THEN <<"2", "0", "2", "5">> ELSE <<"2", "0", "2", "3">>)]

RenderLists ==
    UNION {[1..n -> RenderPool] : n \in 0..MaxRenderNotes} \cup {TenNotes}

RenderKs == 1..MaxRenderK \cup {GlobalK, SessionK}

\* States whose two memory lists hold the notes handed to the renderers.
RenderMemories == {<<MemList(notes), MemList(notes)>> : notes \in RenderLists}

InitRender == InitWith(RenderMemories)

call_render_global(k) ==
    /\ last' = [op |-> "render_global_memories_md",
                notes |-> NotesForRender(global_memory), k |-> k,
                ret |-> render_global_memories_md(NotesForRender(global_memory), k)]
    /\ UNCHANGED <<messages, conc_vars, session_vars, inject_session_memories_next_turn, persisted_vars,
                   cache_vars, trim_pending>>

call_render_session(k) ==
    /\ last' = [op |-> "render_session_memories_md",
                notes |-> NotesForRender(session_memory), k |-> k,
                ret |-> render_session_memories_md(NotesForRender(session_memory), k)]
    /\ UNCHANGED <<messages, conc_vars, session_vars, inject_session_memories_next_turn, persisted_vars,
                   cache_vars, trim_pending>>

NextRender ==
    \/ \E k \in RenderKs : call_render_global(k)
    \/ \E k \in RenderKs : call_render_session(k)

SpecRender == InitRender /\ [][NextRender]_vars

\* Position of note i in the descending stable order: one more than the
\* number of notes with a later date, or the same date and an earlier place.
DateRank(notes, i) ==
    1 + Cardinality({j \in 1..Len(notes) :
            \/ StrLess(notes[i].last_update_date, notes[j].last_update_date)
            \/ /\ notes[j].last_update_date = notes[i].last_update_date
               /\ j < i})

TextLine(n) == <<"-", " ">> \o n.text

\* C19: render_global_memories_md(notes, k), notes non-empty and k >= 1,
\* gives one bullet per note for the min(k, n) notes of greatest date, in
\* descending date order, equal dates in their original order, each bullet
\* holding only the note's text.
C19_GlobalRenderSortedStable ==
    (last.op = "render_global_memories_md" /\ last.notes # <<>> /\ last.k >= 1) =>
        LET n == Len(last.notes)
            m == IF last.k < n THEN last.k ELSE n
            at(r) == CHOOSE i \in 1..n : DateRank(last.notes, i) = r
        IN  /\ \A r \in 1..n : \E i \in 1..n : DateRank(last.notes, i) = r
            /\ last.ret = JoinLines([r \in 1..m |-> TextLine(last.notes[at(r)])])

\* C19 witness: 2024, 2025, 2023 render as 2025, 2024, 2023.
C19_Witness ==
    /\ last.op = "render_global_memories_md"
    /\ last.notes = <<Note2024, Note2025, Note2023>>
    /\ last.k = 3
    /\ last.ret = <<"-", " ", "2", "0", "2", "5", "\n",
                    "-", " ", "2", "0", "2", "4", "\n",
                    "-", " ", "2", "0", "2", "3">>

\* C19 witness of the tie: two notes of 2024 keep their order behind 2025.
C19_TieWitness ==
    /\ last.op = "render_global_memories_md"
    /\ last.notes = <<Note2024b, Note2024, Note2025>>
    /\ last.k = 2
    /\ last.ret = <<"-", " ", "2", "0", "2", "5", "\n", "-", " ", "t", "i", "e">>

\* C20: render_session_memories_md(notes, k), notes non-empty and k >= 1,
\* gives exactly the last min(k, n) notes in append order, one bullet each,
\* never reordered by date.
C20_SessionRenderLastKInOrder ==
    (last.op = "render_session_memories_md" /\ last.notes # <<>> /\ last.k >= 1) =>
        LET n == Len(last.notes)
            m == IF last.k < n THEN last.k ELSE n
        IN  last.ret = JoinLines([i \in 1..m |-> TextLine(last.notes[n - m + i])])

\* C20 witness: ten notes with k = 8 give "2" .. "9", the last eight as
\* appended, although their dates are not in order.
C20_Witness ==
    /\ last.op = "render_session_memories_md"
    /\ last.notes = TenNotes
    /\ last.k = 8
    /\ last.ret = JoinLines([i \in 1..8 |-> <<"-", " ", Digit(i + 1)>>])
    /\ StrLess(TenNotes[9].last_update_date, TenNotes[8].last_update_date)

\* ------------------------------------------------------------ persistence

StateKeys == {"profile", "global_memory", "session_memory", "trip_history"}

\* The TravelState the variables hold.
Self ==
    [profile |-> profile,
     global_memory |-> global_memory,
     session_memory |-> session_memory,
     trip_history |-> trip_history,
     system_frontmatter |-> system_frontmatter,
     global_memories_md |-> global_memories_md,
     session_memories_md |-> session_memories_md,
     inject_session_memories_next_turn |-> inject_session_memories_next_turn]

\* The dict written without the session notes.
to_dict_without_session(s) ==
    [profile |-> s.profile,
     global_memory |-> s.global_memory,
     trip_history |-> s.trip_history]

to_dict(s) ==
    [profile |-> s.profile,
     global_memory |-> s.global_memory,
     session_memory |-> s.session_memory,
     trip_history |-> s.trip_history]

\* data.get(key, default): the default only when the key is absent.
DictGet(data, key, default) == IF key \in DOMAIN data THEN data[key] ELSE default

\* The profile {} of a TravelState built without one.
EmptyProfile == "{}"

from_dict(data) ==
    [profile |-> DictGet(data, "profile", EmptyProfile),
     global_memory |-> DictGet(data, "global_memory", MemList(<<>>)),
     session_memory |-> DictGet(data, "session_memory", MemList(<<>>)),
     trip_history |-> DictGet(data, "trip_history", TripList(<<>>)),
     system_frontmatter |-> <<>>,
     global_memories_md |-> <<>>,
     session_memories_md |-> <<>>,
     inject_session_memories_next_turn |-> FALSE]

\* What save_user_state writes for the default user state.
DefaultObject ==
    [profile |-> "profile",
     global_memory |-> MemList(<<StoredNote>>),
     session_memory |-> MemList(<<>>),
     trip_history |-> DefaultTrips]

Without(data, key) == [k \in DOMAIN data \ {key} |-> data[k]]

\* The objects json.load can hand to from_dict: the default one, and the
\* default one with one key absent, null, a map without its list, or a map
\* whose list is null.
PersistedObjects ==
    {DefaultObject}
    \cup {Without(DefaultObject, key) : key \in StateKeys}
    \cup {[DefaultObject EXCEPT !.global_memory = m] : m \in {MemNull, MemMissing, MemNone}}
    \cup {[DefaultObject EXCEPT !.session_memory = m] : m \in {MemNull, MemMissing, MemNone}}
    \cup {[DefaultObject EXCEPT !.trip_history = t] : t \in {TripsNull, TripsMissing}}

\* The variables hold the TravelState s, over a new session.
Holds(s) ==
    /\ profile = s.profile
    /\ global_memory = s.global_memory
    /\ session_memory = s.session_memory
    /\ trip_history = s.trip_history
    /\ system_frontmatter = s.system_frontmatter
    /\ global_memories_md = s.global_memories_md
    /\ session_memories_md = s.session_memories_md
    /\ inject_session_memories_next_turn = s.inject_session_memories_next_turn

\* load_user_state on an existing file, then create_session.
InitPersist ==
    \E data \in PersistedObjects :
        /\ Holds(from_dict(data))
        /\ \E arg \in 0..MaxTurnsArg : max_turns = NormalizeMaxTurns(arg)
        /\ items = <<>>
        /\ last = [op |-> "from_dict", data |-> data]
        /\ trim_pending = FALSE
        /\ NoCoroutines
        /\ NoMessages

\* The page is loaded anew: load_user_state reads the file save_user_state
\* wrote at the end of the last handler, and a new session is created.
load_user_state ==
    LET data == to_dict(Self)
        s == from_dict(data)
    IN  /\ profile' = s.profile
        /\ global_memory' = s.global_memory
        /\ session_memory' = s.session_memory
        /\ trip_history' = s.trip_history
        /\ system_frontmatter' = s.system_frontmatter
        /\ global_memories_md' = s.global_memories_md
        /\ session_memories_md' = s.session_memories_md
        /\ inject_session_memories_next_turn' = s.inject_session_memories_next_turn
        /\ items' = <<>>
        /\ trim_pending' = FALSE
        /\ last' = [op |-> "load_user_state", pre |-> Self, data |-> data]
        /\ messages' = <<>>
        /\ UNCHANGED <<conc_vars, max_turns>>

\* The responses of a summarization that answers.
AnsweringResponses ==
    {RespReturn(TextContent("invalid", <<>>)), RespReturn(TextContent("list", <<>>))}

NextPersist ==
    \/ add_items(<<UserMsg>>)
    \/ \E text \in CoreTexts, keywords \in CoreKeywords, now \in Clock :
          save_memory_note(text, keywords, now)
    \/ on_start
    \/ build_instructions
    \/ \E resp \in AnsweringResponses : consolidate_memory(resp)
    \/ load_user_state

SpecPersist == InitPersist /\ [][NextPersist]_vars

\* C17: from_dict(s.to_dict()) has the profile, global_memory notes,
\* session_memory notes and trip_history trips of s, empty system_frontmatter,
\* global_memories_md and session_memories_md, and a false flag whatever the
\* flag of s; to_dict has exactly the keys profile, global_memory,
\* session_memory, trip_history.
C17_RoundTripKeepsPersistedFields ==
    [][last'.op = "load_user_state" =>
           /\ DOMAIN last'.data = StateKeys
           /\ profile' = profile
           /\ global_memory' = global_memory
           /\ session_memory' = session_memory
           /\ trip_history' = trip_history
           /\ system_frontmatter' = <<>>
           /\ global_memories_md' = <<>>
           /\ session_memories_md' = <<>>
           /\ inject_session_memories_next_turn' = FALSE]_vars

\* C17 witness: a state with a session note, the flag set and the global
\* block rendered went through the round trip.
C17_Witness ==
    /\ last.op = "load_user_state"
    /\ last.pre.inject_session_memories_next_turn
    /\ last.pre.global_memories_md # <<>>
    /\ last.pre.session_memory.tag = "list"
    /\ Len(last.pre.session_memory.notes) = 1
    /\ session_memory = last.pre.session_memory
    /\ global_memory = last.pre.global_memory
    /\ ~inject_session_memories_next_turn
    /\ global_memories_md = <<>>

\* The field of a persisted object is missing or malformed.
Malformed(data, key) == key \notin DOMAIN data \/ data[key].tag # "list"

\* C18: a TravelState built from a persisted object whose global_memory,
\* session_memory or trip_history is absent, null or a map without its list
\* has that collection empty, and save_memory_note, consolidate_memory and
\* rendering on it afterwards do not fail.
C18_MalformedLoadsAsEmpty ==
    /\ last.op = "from_dict" =>
           /\ Malformed(last.data, "global_memory") =>
                  NotesForRender(global_memory) = <<>>
           /\ Malformed(last.data, "session_memory") =>
                  NotesForRender(session_memory) = <<>>
           /\ Malformed(last.data, "trip_history") =>
                  (trip_history.tag = "list" => trip_history.trips = <<>>)
    /\ last.op = "save_memory_note" => last.ret = [ok |-> TRUE]
    /\ last.op = "consolidate_memory" => last.outcome # "raised"

\* ------------------------------------- TrimmingSession methods as coroutines
\* Each method is a coroutine: it waits for the lock ("async with
\* self._lock"), runs its body statement by statement and releases the lock
\* when the body ends.  The scheduler may run any other coroutine between
\* two steps.

\* lock.acquire() proceeds whatever the lock's state.
lock_ignored(locked) == TRUE

\* asyncio.Lock.acquire proceeds only while the lock is not held.
LockFree(locked) == ~locked

\* The method calls a coroutine may issue.
CoroCalls ==
    {[op |-> "get_items", limit |-> l] : l \in {NoLimit, [given |-> TRUE, n |-> 1]}}
    \cup {[op |-> "add_items", new |-> n] : n \in {<<>>, <<UserMsg>>, <<AssistantMsg>>}}
    \cup {[op |-> "pop_item"], [op |-> "clear_session"]}

BodyPcs == {"get_trim", "get_return", "add_extend", "add_trim", "add_store",
            "pop", "clear"}

\* The frame of a method that returned: the buffer when it took the lock,
\* the buffer when it released it, the value returned.
DoneFrame(f, after, ret) ==
    [pc |-> "done", call |-> f.call, before |-> f.before, after |-> after, ret |-> ret]

\* A coroutine calls a method; add_items([]) returns before the lock
\* (lines 234-235).
call(t, c) ==
    /\ coros[t].pc \in {"idle", "done"}
    /\ coros' = [coros EXCEPT ![t] =
           IF c.op = "add_items" /\ c.new = <<>>
           THEN [pc |-> "done", call |-> c, before |-> items, after |-> items,
                 ret |-> <<>>]
           ELSE [pc |-> "acquire", call |-> c]]
    /\ UNCHANGED <<messages, items, _lock, max_turns, inject_session_memories_next_turn,
                   persisted_vars, cache_vars, last, trim_pending>>

\* "async with self._lock": the coroutine enters the body.
lock_acquire(t) ==
    /\ coros[t].pc = "acquire"
    /\ LockFree(_lock)
    /\ coros[t].call.op = "add_items" =>
           Len(items) + Len(coros[t].call.new) <= MaxItems
    /\ _lock' = TRUE
    /\ coros' = [coros EXCEPT ![t] =
           [pc |-> CASE coros[t].call.op = "get_items" -> "get_trim"
                     [] coros[t].call.op = "add_items" -> "add_extend"
                     [] coros[t].call.op = "pop_item" -> "pop"
                     [] OTHER -> "clear",
            call |-> coros[t].call, before |-> items]]
    /\ UNCHANGED <<messages, items, max_turns, inject_session_memories_next_turn,
                   persisted_vars, cache_vars, last, trim_pending>>

\* Line 230: trimmed = self._trim_to_last_turns(list(self._items))
get_items_trim(t) ==
    /\ coros[t].pc = "get_trim"
    /\ coros' = [coros EXCEPT ![t] =
           [pc |-> "get_return", call |-> coros[t].call, before |-> coros[t].before,
            trimmed |-> _trim_to_last_turns(items, max_turns)]]
    /\ UNCHANGED <<messages, items, _lock, max_turns, inject_session_memories_next_turn,
                   persisted_vars, cache_vars, last, trim_pending>>

\* Line 231: the slice is returned and the lock released.
get_items_return(t) ==
    /\ coros[t].pc = "get_return"
    /\ coros' = [coros EXCEPT ![t] =
           DoneFrame(coros[t], items,
                     IF coros[t].call.limit.given /\ coros[t].call.limit.n >= 0
                     THEN LastK(coros[t].trimmed, coros[t].call.limit.n)
                     ELSE coros[t].trimmed)]
    /\ _lock' = FALSE
    /\ UNCHANGED <<messages, items, max_turns, inject_session_memories_next_turn,
                   persisted_vars, cache_vars, last, trim_pending>>

\* Line 237: self._items.extend(items)
add_items_extend(t) ==
    /\ coros[t].pc = "add_extend"
    /\ items' = items \o coros[t].call.new
    /\ coros' = [coros EXCEPT ![t] =
           [pc |-> "add_trim", call |-> coros[t].call, before |-> coros[t].before]]
    /\ UNCHANGED <<messages, _lock, max_turns, inject_session_memories_next_turn,
                   persisted_vars, cache_vars, last, trim_pending>>

\* Lines 238-241: the length, the trimmed copy, the flag.
add_items_trim(t) ==
    LET original_len == Len(items)
        trimmed == _trim_to_last_turns(items, max_turns)
    IN  /\ coros[t].pc = "add_trim"
        /\ inject_session_memories_next_turn' =
               FlagAfterTrim(inject_session_memories_next_turn, trimmed, original_len)
        /\ trim_pending' = (trim_pending \/ Len(trimmed) < original_len)
        /\ coros' = [coros EXCEPT ![t] =
               [pc |-> "add_store", call |-> coros[t].call,
                before |-> coros[t].before, trimmed |-> trimmed]]
        /\ UNCHANGED <<messages, items, _lock, max_turns, persisted_vars, cache_vars, last>>

\* Lines 242-243: the buffer is replaced by the trimmed copy, the lock released.
add_items_store(t) ==
    /\ coros[t].pc = "add_store"
    /\ items' = coros[t].trimmed
    /\ coros' = [coros EXCEPT ![t] = DoneFrame(coros[t], items', <<>>)]
    /\ _lock' = FALSE
    /\ UNCHANGED <<messages, max_turns, inject_session_memories_next_turn,
                   persisted_vars, cache_vars, last, trim_pending>>

\* Line 247 under the lock.
pop_item_locked(t) ==
    /\ coros[t].pc = "pop"
    /\ items' = IF items # <<>> THEN Popped(items).rest ELSE items
    /\ coros' = [coros EXCEPT ![t] =
           DoneFrame(coros[t], items',
                     IF items # <<>> THEN Popped(items).ret ELSE <<>>)]
    /\ _lock' = FALSE
    /\ UNCHANGED <<messages, max_turns, inject_session_memories_next_turn,
                   persisted_vars, cache_vars, last, trim_pending>>

\* Line 251 under the lock.
clear_session_locked(t) ==
    /\ coros[t].pc = "clear"
    /\ items' = <<>>
    /\ coros' = [coros EXCEPT ![t] = DoneFrame(coros[t], items', <<>>)]
    /\ _lock' = FALSE
    /\ UNCHANGED <<messages, max_turns, inject_session_memories_next_turn,
                   persisted_vars, cache_vars, last, trim_pending>>

NextConcurrent ==
    \/ \E t \in Tasks, c \in CoroCalls : call(t, c)
    \/ \E t \in Tasks : lock_acquire(t)
    \/ \E t \in Tasks : get_items_trim(t)
    \/ \E t \in Tasks : get_items_return(t)
    \/ \E t \in Tasks : add_items_extend(t)
    \/ \E t \in Tasks : add_items_trim(t)
    \/ \E t \in Tasks : add_items_store(t)
    \/ \E t \in Tasks : pop_item_locked(t)
    \/ \E t \in Tasks : clear_session_locked(t)

SpecConcurrent == Init /\ [][NextConcurrent]_vars

\* C16: however the coroutines interleave, each method's read-modify-write
\* of the buffer is atomic: at most one coroutine is inside a body, and a
\* method that returned left the buffer and returned the value that the
\* method run alone gives on the buffer it found when it took the lock.  So
\* a get_items view has at most max_turns user entries, and after add_items
\* the buffer is the trimmed buffer-plus-new-entries with nothing else lost.
C16_MethodsAtomicUnderLock ==
    /\ Cardinality({t \in Tasks : coros[t].pc \in BodyPcs}) <= 1
    /\ _lock <=> \E t \in Tasks : coros[t].pc \in BodyPcs
    /\ \A t \in Tasks :
           coros[t].pc = "done" =>
               LET f == coros[t]
               IN  CASE f.call.op = "get_items" ->
                            /\ f.after = f.before
                            /\ f.ret = GetItemsResult(f.before, max_turns, f.call.limit)
                            /\ UserCount(f.ret) <= max_turns
                     [] f.call.op = "add_items" ->
                            f.after = IF f.call.new = <<>> THEN f.before
                                      ELSE _trim_to_last_turns(f.before \o f.call.new,
                                                               max_turns)
                     [] f.call.op = "pop_item" ->
                            IF f.before = <<>>
                            THEN f.after = <<>> /\ f.ret = <<>>
                            ELSE f.before = f.after \o f.ret
                     [] OTHER -> f.after = <<>>

\* C16 witness: one coroutine is between the trim and the store of add_items
\* on a buffer that had to be trimmed while the other waits for the lock
\* with entries of its own to append.
C16_Witness ==
    /\ _lock
    /\ coros["a"].pc = "add_store"
    /\ Len(coros["a"].trimmed) < Len(items)
    /\ coros["b"].pc = "acquire"
    /\ coros["b"].call = [op |-> "add_items", new |-> <<UserMsg>>]

\* C21: render_global_memories_md([]) and render_session_memories_md([])
\* both return the literal placeholder "- (none)", never the empty string.
C21_EmptyListRendersPlaceholder ==
    (/\ last.op \in {"render_global_memories_md", "render_session_memories_md"}
     /\ last.notes = <<>>) =>
        /\ last.ret = <<"-", " ", "(", "n", "o", "n", "e", ")">>
        /\ last.ret # <<>>

\* C21 witness: the session renderer was called on no notes.
C21_Witness ==
    /\ last.op = "render_session_memories_md"
    /\ last.notes = <<>>
    /\ Len(last.ret) = 8

\* C21 witness for the global renderer.
C21_GlobalWitness ==
    /\ last.op = "render_global_memories_md"
    /\ last.notes = <<>>
    /\ Len(last.ret) = 8

\* The entry carries the role "user".
HasUserRole(e) == e.role = "user"

\* Number of entries of buf that carry the role "user".
UserRoleCount(buf) == Cardinality({i \in 1..Len(buf) : HasUserRole(buf[i])})

\* C24: add_items discards entries, and sets the flag, only if the buffer
\* after the append holds strictly more than max_turns user-role entries;
\* with max_turns or fewer, every entry is kept and the flag is not set by
\* the call.
C24_DiscardOnlyAboveMaxTurns ==
    [][last'.op = "add_items" =>
           (UserRoleCount(last'.appended) <= max_turns =>
                /\ items' = last'.appended
                /\ inject_session_memories_next_turn' =
                       inject_session_memories_next_turn)]_vars

\* C25: the trimmed view is a contiguous suffix of the pre-trim buffer in
\* unchanged order; with at least max_turns user-role entries in the buffer
\* it starts at the max_turns-th of them counted from the end (its first
\* entry is a user-role entry), otherwise it is the whole buffer; an entry
\* without a role is never counted as a user entry.
C25_TrimIsSuffixFromUserEntry ==
    (last.op = "add_items" /\ last.new # <<>>) =>
        LET buf == last.appended
            n == Len(buf)
            m == Len(items)
        IN  /\ m <= n
            /\ \A i \in 1..m : items[i] = buf[n - m + i]
            /\ IF UserRoleCount(buf) >= max_turns
               THEN /\ m >= 1
                    /\ HasUserRole(items[1])
                    /\ UserRoleCount(items) = max_turns
               ELSE items = buf

\* C25 witness: a turn with a tool call was discarded whole and the buffer
\* starts at the newest user entry.
C25_Witness ==
    /\ last.op = "add_items"
    /\ last.appended = <<UserMsg, ToolCall, UserMsg>>
    /\ max_turns = 1
    /\ items = <<UserMsg>>

\* The buffer is in trimmed form: fewer than max_turns user-role entries, or
\* exactly max_turns of them with the first entry one of them.
TrimmedForm(buf, k) ==
    \/ UserRoleCount(buf) < k
    \/ UserRoleCount(buf) = k /\ HasUserRole(buf[1])

\* C29: after any sequence of add_items, pop_item and clear_session the
\* stored buffer is in trimmed form (trimming it again changes nothing), so
\* get_items() without a limit returns the stored buffer, and get_items
\* never changes the buffer.
C29_StoredBufferIsTrimmed ==
    /\ [](/\ TrimmedForm(items, max_turns)
          /\ _trim_to_last_turns(items, max_turns) = items)
    /\ [][last'.op = "get_items" =>
              /\ items' = items
              /\ ~last'.limit.given => last'.ret = items]_vars

\* C29 witness: get_items() returned a full window that an add_items had
\* trimmed before.
C29_Witness ==
    /\ last.op = "get_items"
    /\ ~last.limit.given
    /\ UserRoleCount(items) = max_turns
    /\ Len(items) >= 2
    /\ last.ret = items
    /\ trim_pending

\* C26: when the flag is set at build_instructions and there are no session
\* notes, the returned instructions hold no SESSION memory block.
C26_NoBlockWithoutNotes ==
    (last.op = "build_instructions" /\ last.pre_flag /\ last.pre_notes = <<>>) =>
        last.ret.session_block = <<>>

\* C27: after every build_instructions the flag is false and
\* session_memories_md is empty, also when there are no session notes.
C27_FlagNeverSurvivesBuild ==
    last.op = "build_instructions" =>
        /\ ~inject_session_memories_next_turn
        /\ session_memories_md = <<>>

\* C27 witness: the build found the flag set and no session notes.
C27_Witness ==
    /\ last.op = "build_instructions"
    /\ last.pre_flag
    /\ last.pre_notes = <<>>
    /\ ~inject_session_memories_next_turn

\* C28: once the buffer holds max_turns user-role entries, every add_items
\* whose entries include a user-role entry discards content and sets the
\* flag, and every build_instructions that finds the flag set injects the
\* SESSION block: the injection recurs on every turn.
C28_InjectionRecursEveryTurn ==
    [][/\ (/\ last'.op = "add_items"
           /\ UserRoleCount(items) = max_turns
           /\ UserRoleCount(last'.new) >= 1) =>
              /\ Len(items') < Len(last'.appended)
              /\ inject_session_memories_next_turn'
       /\ (last'.op = "build_instructions" /\ inject_session_memories_next_turn) =>
              last'.ret.session_block # <<>>]_vars

\* C28 witness: after an injection had already cleared the flag, a later
\* turn's user entry on the full window set it again.
C28_Witness ==
    /\ last.op = "add_items"
    /\ ~last.pre_flag
    /\ UserRoleCount(last.new) = 1
    /\ UserRoleCount(last.appended) = max_turns + 1
    /\ Len(items) < Len(last.appended)
    /\ inject_session_memories_next_turn
    /\ global_memories_md # <<>>

\* C30: the flag changes value only in add_items, which sets it to true and
\* only when it discards entries, and in build_instructions, which sets it
\* to false; every other operation leaves it as it is.
C30_FlagChangesOnlyInTwoPlaces ==
    [][inject_session_memories_next_turn' # inject_session_memories_next_turn =>
           \/ /\ last'.op = "add_items"
              /\ inject_session_memories_next_turn'
              /\ Len(items') < Len(last'.appended)
           \/ /\ last'.op = "build_instructions"
              /\ ~inject_session_memories_next_turn']_vars

\* C30 witness: a pending injection is still pending after a consolidation
\* that replaced the global notes.
C30_Witness ==
    /\ last.op = "consolidate_memory"
    /\ last.outcome = "done"
    /\ inject_session_memories_next_turn

\* ------------------------------------------------- the pricing functions

\* Longest list of offers, hotels or locations in a provider response.
MaxOffers == 2

\* hotels_response.data[:20], response.data[:5], max_results = 5
HotelIdCap == 20
LocationCap == 5
DefaultMaxResults == 5

\* What a call of the Amadeus client gives: it raises ResponseError, raises
\* another exception, or returns a response with a data list.
ResponseErrorResp == [kind |-> "ResponseError", data |-> <<>>]
ExceptionResp == [kind |-> "Exception", data |-> <<>>]
DataResp(data) == [kind |-> "data", data |-> data]

ProviderResponses(pool) ==
    {ResponseErrorResp, ExceptionResp}
    \cup {DataResp(data) : data \in UNION {[1..n -> pool] : n \in 0..MaxOffers}}

\* A flight offer with its keys, and one without "id" or "price".
FlightItems == {"offer", "malformed"}
\* A hotel with its "hotelId", and one without.
HotelItems == {"hotel", "malformed"}
\* A hotel offer entry whose "offers" list holds an offer, and one whose
\* list is empty.
HotelOfferItems == {"with_offers", "no_offers"}

\* An entry whose required key is missing: reading it raises KeyError.
HasMalformed(data) == \E i \in 1..Len(data) : data[i] = "malformed"

\* Lines 186-189 and 314-317: the client is not configured.
NotConfigured ==
    [error |-> "Amadeus API not configured. Please add AMADEUS_API_KEY and AMADEUS_API_SECRET to your .env file.",
     setup_url |-> "https://developers.amadeus.com"]

\* The dict of the two except branches.
ErrorObject(message) == [error |-> message, success |-> FALSE]

SearchFlightsResult(configured, resp) ==
    IF ~configured THEN NotConfigured
    ELSE IF resp.kind = "ResponseError" THEN ErrorObject("Amadeus API error")
    ELSE IF resp.kind = "Exception" \/ HasMalformed(resp.data)
         THEN ErrorObject("Error searching flights")
    ELSE [success |-> TRUE, count |-> Len(resp.data)]

\* The provider calls search_hotels makes before it returns.
SearchHotelsCalls(configured, first, second) ==
    IF ~configured THEN <<>>
    ELSE IF first.kind # "data" \/ first.data = <<>>
            \/ HasMalformed(Take(first.data, HotelIdCap))
         THEN <<first>>
    ELSE <<first, second>>

SearchHotelsResult(configured, first, second) ==
    IF ~configured THEN NotConfigured
    ELSE IF first.kind = "ResponseError" THEN ErrorObject("Amadeus API error")
    ELSE IF first.kind = "Exception" THEN ErrorObject("Error searching hotels")
    ELSE IF first.data = <<>>
         THEN [success |-> TRUE, count |-> 0, message |-> "No hotels found"]
    ELSE IF HasMalformed(Take(first.data, HotelIdCap))
         THEN ErrorObject("Error searching hotels")
    ELSE IF second.kind = "ResponseError" THEN ErrorObject("Amadeus API error")
    ELSE IF second.kind = "Exception" THEN ErrorObject("Error searching hotels")
    ELSE LET top == Take(second.data, DefaultMaxResults)
         IN  [success |-> TRUE,
              count |-> Cardinality({i \in 1..Len(top) : top[i] = "with_offers"})]

GetAirportCodeResult(configured, resp) ==
    IF ~configured THEN [error |-> "Amadeus API not configured."]
    ELSE IF resp.kind = "ResponseError" THEN ErrorObject("Amadeus API error")
    ELSE IF resp.kind = "Exception" THEN ErrorObject("Error looking up location")
    ELSE [success |-> TRUE, locations |-> Len(Take(resp.data, LocationCap))]

search_flights(configured, resp) ==
    /\ last' = [op |-> "search_flights", configured |-> configured,
                resps |-> IF configured THEN <<resp>> ELSE <<>>,
                ret |-> SearchFlightsResult(configured, resp)]
    /\ UNCHANGED <<messages, conc_vars, session_vars, inject_session_memories_next_turn,
                   persisted_vars, cache_vars, trim_pending>>

search_hotels(configured, first, second) ==
    /\ last' = [op |-> "search_hotels", configured |-> configured,
                resps |-> SearchHotelsCalls(configured, first, second),
                ret |-> SearchHotelsResult(configured, first, second)]
    /\ UNCHANGED <<messages, conc_vars, session_vars, inject_session_memories_next_turn,
                   persisted_vars, cache_vars, trim_pending>>

get_airport_code(configured, resp) ==
    /\ last' = [op |-> "get_airport_code", configured |-> configured,
                resps |-> IF configured THEN <<resp>> ELSE <<>>,
                ret |-> GetAirportCodeResult(configured, resp)]
    /\ UNCHANGED <<messages, conc_vars, session_vars, inject_session_memories_next_turn,
                   persisted_vars, cache_vars, trim_pending>>

NextPricing ==
    \/ \E configured \in BOOLEAN, resp \in ProviderResponses(FlightItems) :
          search_flights(configured, resp)
    \/ \E configured \in BOOLEAN, first \in ProviderResponses(HotelItems),
          second \in ProviderResponses(HotelOfferItems) :
          search_hotels(configured, first, second)
    \/ \E configured \in BOOLEAN, resp \in ProviderResponses({"location"}) :
          get_airport_code(configured, resp)

SpecPricing == Init /\ [][NextPricing]_vars

\* The call failed: no client, a provider call that raised, or an entry
\* that cannot be parsed.
PricingFailed(rec) ==
    \/ ~rec.configured
    \/ \E i \in 1..Len(rec.resps) :
          rec.resps[i].kind # "data" \/ HasMalformed(rec.resps[i].data)

\* C22: every failure of search_flights, search_hotels or get_airport_code
\* (provider not configured, provider error response, any other exception
\* in the call or the parsing) is returned as an object with an error
\* string and success = false.
C22_FailuresReturnErrorObjects ==
    (/\ last.op \in {"search_flights", "search_hotels", "get_airport_code"}
     /\ PricingFailed(last)) =>
        /\ "error" \in DOMAIN last.ret
        /\ "success" \in DOMAIN last.ret
        /\ last.ret.success = FALSE

\* --------------------------------------------------------- the chat handler
\* display_chat (app.py 574-619) hands the prompt to run_agent_turn, that is
\* to Runner.run, which calls the session, the hooks, the instruction
\* builder and the tools and then returns the final output or raises.  The
\* handler is modelled in two steps around that call: chat_input up to the
\* call, chat_turn_ends from the call's end to the handler's end.

\* Longest chat that is modelled.
MaxMessages == 4

\* How run_agent_turn ends.
TurnOutcomes ==
    {[kind |-> "return", output |-> <<"answer">>],
     [kind |-> "raise", error |-> "RuntimeError"]}

\* How save_user_state ends.
SaveOutcomes == {"ok", "raise"}

\* Line 607
Apology(error) == <<"Sorry, I encountered an error: ", error>>

\* The handler waits for run_agent_turn: the prompt is the last message.
InTurn == messages # <<>> /\ messages[Len(messages)].role = "user"

\* Lines 584-587
chat_input ==
    /\ ~InTurn
    /\ Len(messages) + 2 <= MaxMessages
    /\ messages' = Append(messages, [role |-> "user", content |-> <<"prompt">>])
    /\ last' = [op |-> "chat_input"]
    /\ UNCHANGED <<conc_vars, session_vars, inject_session_memories_next_turn,
                   persisted_vars, cache_vars, trim_pending>>

\* The exception of run_agent_turn leaves the handler.
handler_without_except(turn, save) ==
    IF turn.kind = "raise"
    THEN [response |-> <<>>, appended |-> FALSE, save_attempted |-> FALSE,
          raised |-> TRUE]
    ELSE [response |-> turn.output, appended |-> TRUE, save_attempted |-> TRUE,
          raised |-> FALSE]

\* Lines 593-619: the response, whether the assistant message is appended,
\* whether save_user_state is called, whether an exception leaves the
\* handler.
HandlerOutcome(turn, save) ==
    [response |-> IF turn.kind = "raise" THEN Apology(turn.error) ELSE turn.output,
     appended |-> TRUE,
     save_attempted |-> TRUE,
     raised |-> FALSE]

chat_turn_ends(turn, save) ==
    LET out == HandlerOutcome(turn, save)
    IN  /\ InTurn
        /\ messages' = IF out.appended
                       THEN Append(messages, [role |-> "assistant",
                                              content |-> out.response])
                       ELSE messages
        /\ last' = [op |-> "display_chat", turn |-> turn, save |-> save,
                    response |-> out.response,
                    save_attempted |-> out.save_attempted,
                    saved |-> IF out.save_attempted /\ save = "ok"
                              THEN <<to_dict(Self)>> ELSE <<>>,
                    raised |-> out.raised]
        /\ UNCHANGED <<conc_vars, session_vars, inject_session_memories_next_turn,
                       persisted_vars, cache_vars, trim_pending>>

\* One chat after another; inside a turn the runner calls the hook, the
\* instruction builder, the note tool and the session.
NextChat ==
    \/ chat_input
    \/ InTurn /\ on_start
    \/ InTurn /\ build_instructions
    \/ /\ InTurn
       /\ \E text \in CoreTexts, keywords \in CoreKeywords, now \in Clock :
             save_memory_note(text, keywords, now)
    \/ InTurn /\ add_items(<<UserMsg, AssistantMsg>>)
    \/ \E turn \in TurnOutcomes, save \in SaveOutcomes : chat_turn_ends(turn, save)

SpecChat == Init /\ [][NextChat]_vars

\* C23: an exception raised by run_agent_turn is caught and turned into an
\* apology message that is the assistant response; whether the turn returned
\* or raised, the handler appends the assistant message and attempts to
\* save the state, and a failing save does not leave the handler either.
C23_TurnFailureBecomesApology ==
    [][last'.op = "display_chat" =>
           /\ last'.turn.kind = "raise" =>
                  last'.response = <<"Sorry, I encountered an error: ", last'.turn.error>>
           /\ messages' = Append(messages, [role |-> "assistant",
                                            content |-> last'.response])
           /\ last'.save_attempted
           /\ last'.save = "ok" => last'.saved = <<to_dict(Self)>>
           /\ ~last'.raised]_vars

\* C23 witness: the turn raised after it had stored a note, the save failed
\* too, and the chat ends with the apology.
C23_Witness ==
    /\ last.op = "display_chat"
    /\ last.turn.kind = "raise"
    /\ last.save = "raise"
    /\ ~last.raised
    /\ NotesOrEmpty(session_memory) # <<>>
    /\ messages[Len(messages)] =
           [role |-> "assistant",
            content |-> <<"Sorry, I encountered an error: ", "RuntimeError">>]

====
